---- MODULE Spec2Model ----
(***************************************************************************)
(* Photographer Portfolio API (src/main.py): registration, the token       *)
(* service, the access guard, the upload pipeline and the album archive,   *)
(* as a state machine over the user/album/photo collections, the upload    *)
(* directory tree and a pool of concurrently running request handlers.     *)
(*                                                                         *)
(* Time is counted in ticks, TicksPerSec to the second, so that the        *)
(* whole-second "exp" claim of a token is a real conversion.               *)
(* An ObjectId is a natural number; its string form is ToString of it.     *)
(***************************************************************************)
EXTENDS Integers, Sequences, FiniteSets, TLC

VARIABLES
    now,      \* the clock, in ticks
    oid,      \* the next value of the ObjectId() generator
    users,    \* db["user"], in insertion order
    albums,   \* db["album"], in insertion order
    photos,   \* db["photo"], in insertion order
    dirs,     \* the album directories under UPLOAD_DIR
    files,    \* the files under UPLOAD_DIR: [path, size]
    issued,   \* the tokens the server has handed to clients
    pc,       \* per worker: the position of the handler it runs
    loc,      \* per worker: the handler's parameters and local variables
    sent,     \* the response, if any, that the latest step sent
    tk,       \* token round trip: the token under test and how it was issued
    tkv       \* token round trip: the latest validation of tk

vars == <<now, oid, users, albums, photos, dirs, files, issued, pc, loc, sent, tk, tkv>>

----------------------------------------------------------------------------
(* Bounds of the model *)

NumWorkers == 2
MaxOid == 7
MaxDownloads == 1
MaxTicks == 3
TicksPerSec == 2

Workers == 1..NumWorkers
Emails == {"a@x", "b@x"}
FileNames == {<<>>, <<"a", ".", "j">>, <<"b">>}

\* The sizes of the uploaded bodies, in bytes
UploadSizes == {1}

\* The strings ObjectId(s) is tried on stand for ObjectIds up to here
OidLimit == MaxOid + 1

----------------------------------------------------------------------------
(* Configuration *)

JWT_SECRET == "secret-key-change-me"
AttackerKey == "not-the-secret"
ACCESS_TOKEN_EXPIRE_MINUTES == 60 * 24 * 7

\* timedelta(minutes=m), in ticks
timedelta_minutes(m) == m * 60 * TicksPerSec

----------------------------------------------------------------------------
(* ObjectId and its string form *)

\* str(ObjectId)
IdStr(n) == ToString(n)

\* bson.ObjectId.is_valid: the strings ObjectId(s) accepts
IsObjectIdStr(s) == \E n \in 0..OidLimit : ToString(n) = s

\* ObjectId(s) for a string it accepts
ObjectIdOf(s) == CHOOSE n \in 0..OidLimit : ToString(n) = s

----------------------------------------------------------------------------
(* Token service: jwt.encode / jwt.decode with HS256 *)

\* The MAC of a claims set under a key: equal exactly for equal claims and key.
HS256(sub, role, exp, key) == [sub |-> sub, role |-> role, exp |-> exp, key |-> key]

NoToken == [sub |-> "", role |-> "", exp |-> 0, sig |-> HS256("", "", 0, "")]

\* jwt.encode turns a datetime "exp" into whole seconds since the epoch
\* (timegm(exp.utctimetuple())): the sub-second part is dropped.
NumericDate(t) == t \div TicksPerSec

jwt_encode(payload, key) ==
    LET exp == NumericDate(payload.exp)
    IN [sub |-> payload.sub, role |-> payload.role, exp |-> exp,
        sig |-> HS256(payload.sub, payload.role, exp, key)]

\* jwt.decode(token, key, algorithms=["HS256"]) at time t: the signature is
\* verified first, then "exp": the token is expired once exp <= now.
\* A slip: a token is still accepted at the very second it expires
jwt_decode_late(token, key, t) ==
    IF token = NoToken
    THEN [ok |-> FALSE, err |-> "DecodeError", sub |-> "", role |-> ""]
    ELSE IF token.sig # HS256(token.sub, token.role, token.exp, key)
    THEN [ok |-> FALSE, err |-> "InvalidSignatureError", sub |-> "", role |-> ""]
    ELSE IF token.exp * TicksPerSec < t
    THEN [ok |-> FALSE, err |-> "ExpiredSignatureError", sub |-> "", role |-> ""]
    ELSE [ok |-> TRUE, err |-> "", sub |-> token.sub, role |-> token.role]

jwt_decode(token, key, t) ==
    IF token = NoToken
    THEN [ok |-> FALSE, err |-> "DecodeError", sub |-> "", role |-> ""]
    ELSE IF token.sig # HS256(token.sub, token.role, token.exp, key)
    THEN [ok |-> FALSE, err |-> "InvalidSignatureError", sub |-> "", role |-> ""]
    ELSE IF token.exp * TicksPerSec <= t
    THEN [ok |-> FALSE, err |-> "ExpiredSignatureError", sub |-> "", role |-> ""]
    ELSE [ok |-> TRUE, err |-> "", sub |-> token.sub, role |-> token.role]

\* An Optional[timedelta]: None, or a number of ticks.
NoDelta == [given |-> FALSE, ticks |-> 0]
Delta(d) == [given |-> TRUE, ticks |-> d]

\* expires_delta or timedelta(minutes=ACCESS_TOKEN_EXPIRE_MINUTES):
\* None and timedelta(0) are both falsy.
ExpiresDeltaOrDefault(expires_delta) ==
    IF expires_delta.given /\ expires_delta.ticks # 0
    THEN expires_delta.ticks
    ELSE timedelta_minutes(ACCESS_TOKEN_EXPIRE_MINUTES)

create_access_token(data, expires_delta, t) ==
    LET expire == t + ExpiresDeltaOrDefault(expires_delta)
    IN jwt_encode([sub |-> data.sub, role |-> data.role, exp |-> expire], JWT_SECRET)

----------------------------------------------------------------------------
(* Credential values: the text of an Authorization value is a sequence of  *)
(* atoms, each a space, a word or the text of one JWT.                     *)

Space == [ch |-> " ", tok |-> NoToken]
Word(s) == [ch |-> s, tok |-> NoToken]
Jwt(t) == [ch |-> "jwt", tok |-> t]

NoHeader == [present |-> FALSE, text |-> <<>>]
Header(text) == [present |-> TRUE, text |-> text]

\* str.lower on one atom
LowerCh(c) ==
    CASE c = "Bearer" -> "bearer"
      [] c = "BEARER" -> "bearer"
      [] c = "Basic" -> "basic"
      [] OTHER -> c

Lower(s) == [i \in 1..Len(s) |-> [s[i] EXCEPT !.ch = LowerCh(s[i].ch)]]

\* s.split(" "): the parts between single spaces, empty parts included
RECURSIVE Split(_)
Split(s) ==
    LET sp == {i \in 1..Len(s) : s[i] = Space}
    IN IF sp = {}
       THEN <<s>>
       ELSE LET i == CHOOSE j \in sp : \A k \in sp : j <= k
            IN <<SubSeq(s, 1, i - 1)>> \o Split(SubSeq(s, i + 1, Len(s)))

\* jwt.decode of the text of a token part: only the text of one JWT parses
DecodePart(part, t) ==
    IF Len(part) = 1 /\ part[1].ch = "jwt"
    THEN jwt_decode(part[1].tok, JWT_SECRET, t)
    ELSE jwt_decode(NoToken, JWT_SECRET, t)

----------------------------------------------------------------------------
(* Access guard *)

Rejected(status) == [status |-> status, user_id |-> "", role |-> ""]
Identity(user_id, role) == [status |-> 200, user_id |-> user_id, role |-> role]

get_current_user(authorization, t) ==
    IF ~authorization.present \/ authorization.text = <<>>
    THEN Rejected(401)
    ELSE LET parts == Split(authorization.text)
         IN IF Len(parts) # 2
            THEN Rejected(401)
            ELSE IF Lower(parts[1]) # <<Word("bearer")>>
            THEN Rejected(401)
            ELSE LET payload == DecodePart(parts[2], t)
                 IN IF payload.ok
                    THEN Identity(payload.sub, payload.role)
                    ELSE Rejected(401)

\* A slip: the role is not looked at
RoleCheckSkipped(user) == user

require_admin_check(user) ==
    IF user.role # "admin" THEN Rejected(403) ELSE user

\* A slip: the role the token claims is judged before the token is validated
RoleBeforeAuthentication(authorization, t) ==
    LET claimed == {a.tok.role : a \in {authorization.text[i] : i \in 1..Len(authorization.text)}}
                       \ {""}
       user == get_current_user(authorization, t)
    IN IF claimed # {} /\ "admin" \notin claimed
       THEN Rejected(403)
       ELSE IF user.status # 200 THEN user ELSE require_admin_check(user)

\* Depends(get_current_user) runs first; its HTTPException ends the request.
require_admin(authorization, t) ==
    LET user == get_current_user(authorization, t)
    IN IF user.status # 200 THEN user ELSE require_admin_check(user)

----------------------------------------------------------------------------
(* Storage layout *)

\* os.path.splitext(filename)[1]: from the last dot, unless only dots precede it
splitext_ext(name) ==
    LET dotsAt == {i \in 1..Len(name) : name[i] = "."}
    IN IF dotsAt = {}
       THEN <<>>
       ELSE LET d == CHOOSE i \in dotsAt : \A j \in dotsAt : j <= i
            IN IF \E j \in 1..(d - 1) : name[j] # "."
               THEN SubSeq(name, d, Len(name))
               ELSE <<>>

\* f"{ObjectId()}{ext}"
SafeName(id, filename) == <<IdStr(id)>> \o splitext_ext(filename)

\* os.path.join(UPLOAD_DIR, album_id, safe_name)
DestPath(album_id, safe_name) == [dir |-> album_id, name |-> safe_name]

\* f"/uploads/{album_id}/{safe_name}"
FileUrl(album_id, safe_name) == [prefix |-> "/uploads", dir |-> album_id, name |-> safe_name]

\* os.path.join(os.getcwd(), file_url.lstrip("/")), as a path under UPLOAD_DIR
FsPath(file_url) == [dir |-> file_url.dir, name |-> file_url.name]

\* os.path.exists(path)
Exists(path, fs) == \E f \in fs : f.path = path

\* os.path.getsize(path) of an existing file
GetSize(path, fs) == (CHOOSE f \in fs : f.path = path).size

----------------------------------------------------------------------------
(* Handler state *)

NoIdentity == Rejected(0)

BlankLoc ==
    [email |-> "", is_first |-> FALSE, authorization |-> NoHeader, user |-> NoIdentity,
     album_id |-> "", file_name |-> <<>>, safe_name |-> <<>>, snapshot |-> <<>>]

\* A response, with the credential and the album id of the request it answers
NoSent ==
    [w |-> 0, op |-> "", status |-> 0, authorization |-> NoHeader, album_id |-> "",
     role |-> "", token |-> NoToken, zip |-> <<>>]

Response(w, op, status) ==
    [NoSent EXCEPT !.w = w, !.op = op, !.status = status,
                   !.authorization = loc[w].authorization, !.album_id = loc[w].album_id]

RegisterPcs == {"register_find", "register_count", "register_insert"}
CreatePcs == {"create_album_insert"}
UploadPcs == {"upload_lookup", "upload_alloc", "upload_write", "upload_record"}
DownloadPcs == {"download_lookup", "download_query", "iterfile"}

InFlight(pcs) == Cardinality({w \in Workers : pc[w] \in pcs})

\* The generator can still serve the handlers in flight and one that takes n
\* ObjectIds (an upload takes two: the file's name and the record's _id)
OidsLeft(n) ==
    oid + InFlight(RegisterPcs) + InFlight(CreatePcs) + 2 * InFlight(UploadPcs) + n <= MaxOid + 1

Finish(w, response) ==
    /\ pc' = [pc EXCEPT ![w] = "idle"]
    /\ loc' = [loc EXCEPT ![w] = BlankLoc]
    /\ sent' = response

Goto(w, label, newloc) ==
    /\ pc' = [pc EXCEPT ![w] = label]
    /\ loc' = [loc EXCEPT ![w] = newloc]
    /\ sent' = NoSent

tokenVars == <<tk, tkv>>
storeVars == <<albums, photos, dirs, files>>

----------------------------------------------------------------------------
(* POST /auth/register *)

\* db["user"].find_one({"email": email})
FindByEmail(us, email) == \E i \in 1..Len(us) : us[i].email = email

\* db["user"].count_documents({}) == 0
IsFirst(us) == Len(us) = 0

\* "admin" if is_first else "user"
RoleFor(is_first) == IF is_first THEN "admin" ELSE "user"

ReceiveRegister(w, email) ==
    /\ pc[w] = "idle"
    /\ OidsLeft(1)
    /\ Goto(w, "register_find", [BlankLoc EXCEPT !.email = email])
    /\ UNCHANGED <<now, oid, users, issued, storeVars, tokenVars>>

RegisterFind(w) ==
    /\ pc[w] = "register_find"
    /\ IF FindByEmail(users, loc[w].email)
       THEN Finish(w, Response(w, "register", 400))
       ELSE Goto(w, "register_count", loc[w])
    /\ UNCHANGED <<now, oid, users, issued, storeVars, tokenVars>>

RegisterCount(w) ==
    /\ pc[w] = "register_count"
    /\ Goto(w, "register_insert", [loc[w] EXCEPT !.is_first = IsFirst(users)])
    /\ UNCHANGED <<now, oid, users, issued, storeVars, tokenVars>>

RegisterInsert(w) ==
    /\ pc[w] = "register_insert"
    /\ LET role == RoleFor(loc[w].is_first)
           uid == IdStr(oid)
           token == create_access_token([sub |-> uid, role |-> role], NoDelta, now)
       IN /\ users' = Append(users, [id |-> oid, email |-> loc[w].email, role |-> role])
          /\ oid' = oid + 1
          /\ issued' = issued \cup {token}
          /\ Finish(w, [Response(w, "register", 200) EXCEPT !.role = role, !.token = token])
    /\ UNCHANGED <<now, storeVars, tokenVars>>

----------------------------------------------------------------------------
(* The credentials a client can present *)

\* An issued token whose role claim was edited to admin, signature kept
Tampered(t) == [t EXCEPT !.role = "admin"]

\* A token that claims admin, signed with another key
Forged(t) == [t EXCEPT !.role = "admin", !.sig = HS256(t.sub, "admin", t.exp, AttackerKey)]

TokenCandidates == issued \cup {Tampered(t) : t \in issued} \cup {Forged(t) : t \in issued}

Credentials ==
    {NoHeader, Header(<<>>), Header(<<Word("Bearer"), Space>>)}
    \cup {Header(<<Word(s), Space, Jwt(t)>>) : s \in {"Bearer", "BEARER"}, t \in TokenCandidates}
    \cup {Header(<<Jwt(t)>>) : t \in issued}
    \cup {Header(<<Word("Basic"), Space, Jwt(t)>>) : t \in issued}
    \cup {Header(<<Word("Bearer"), Space, Space, Jwt(t)>>) : t \in issued}

----------------------------------------------------------------------------
(* POST /albums and POST /albums/{album_id}/photos behind Depends(require_admin) *)

AdminOps == {"create_album", "upload_photo"}

\* The dependency is resolved before the handler's body: a rejection is the response.
ReceiveAdminOp(w, op, authorization) ==
    /\ pc[w] = "idle"
    /\ OidsLeft(IF op = "create_album" THEN 1 ELSE 2)
    /\ LET user == require_admin(authorization, now)
       IN IF user.status # 200
          THEN Finish(w, [Response(w, op, user.status) EXCEPT !.authorization = authorization])
          ELSE Goto(w, IF op = "create_album" THEN "create_album_insert" ELSE "upload_lookup",
                    [BlankLoc EXCEPT !.user = user, !.authorization = authorization])
    /\ UNCHANGED <<now, oid, users, issued, storeVars, tokenVars>>

\* create_document(collection, doc): insert with a fresh _id, return str(_id)
create_document(collection, id, doc) == Append(collection, [doc EXCEPT !.id = id])

CreateAlbumInsert(w) ==
    /\ pc[w] = "create_album_insert"
    /\ albums' = create_document(albums, oid, [id |-> 0, owner_id |-> loc[w].user.user_id])
    /\ oid' = oid + 1
    /\ Finish(w, Response(w, "create_album", 200))
    /\ UNCHANGED <<now, users, issued, photos, dirs, files, tokenVars>>

\* create_document raises: the exception ends the request
CreateAlbumFails(w) ==
    /\ pc[w] = "create_album_insert"
    /\ Finish(w, Response(w, "create_album", 500))
    /\ UNCHANGED <<now, oid, users, issued, storeVars, tokenVars>>

\* The album ids a request can name
AlbumIdInputs == {IdStr(albums[i].id) : i \in 1..Len(albums)} \cup {IdStr(0), "zz"}

\* db["album"].find_one({"_id": ObjectId(album_id)})
FindAlbum(as, album_id) == \E i \in 1..Len(as) : as[i].id = ObjectIdOf(album_id)

\* The outcome of looking the album up: ObjectId(album_id) raises InvalidId on a
\* string that is no ObjectId, which no handler catches
AlbumLookup(as, album_id) ==
    IF ~IsObjectIdStr(album_id) THEN 500
    ELSE IF ~FindAlbum(as, album_id) THEN 404
    ELSE 200

\* lines 206-207; album_id is the request's path parameter, read here
UploadLookup(w, album_id) ==
    /\ pc[w] = "upload_lookup"
    /\ LET found == AlbumLookup(albums, album_id)
       IN IF found # 200
          THEN Finish(w, [Response(w, "upload_photo", found) EXCEPT !.album_id = album_id])
          ELSE Goto(w, "upload_alloc", [loc[w] EXCEPT !.album_id = album_id])
    /\ UNCHANGED <<now, oid, users, issued, storeVars, tokenVars>>

\* lines 209-213; file.filename is read here
UploadAlloc(w, filename) ==
    /\ pc[w] = "upload_alloc"
    /\ oid' = oid + 1
    /\ dirs' = dirs \cup {loc[w].album_id}
    /\ Goto(w, "upload_write",
            [loc[w] EXCEPT !.file_name = filename, !.safe_name = SafeName(oid, filename)])
    /\ UNCHANGED <<now, users, issued, albums, photos, files, tokenVars>>

\* os.makedirs raises, after ObjectId() was drawn
MakedirsFails(w) ==
    /\ pc[w] = "upload_alloc"
    /\ oid' = oid + 1
    /\ Finish(w, Response(w, "upload_photo", 500))
    /\ UNCHANGED <<now, users, issued, storeVars, tokenVars>>

PhotoDoc(album_id, safe_name, file_name, file_size) ==
    [id |-> 0, album_id |-> album_id, file_url |-> FileUrl(album_id, safe_name),
     file_name |-> file_name, file_size |-> file_size]

\* A slip: the record is inserted where the file should be written
RecordBeforeWrite(w, n) ==
    /\ pc[w] = "upload_write"
    /\ photos' = create_document(photos, oid,
                     PhotoDoc(loc[w].album_id, loc[w].safe_name, loc[w].file_name, n))
    /\ oid' = oid + 1
    /\ Goto(w, "upload_record", loc[w])
    /\ UNCHANGED <<now, users, issued, albums, dirs, files, tokenVars>>

\* lines 215-216; the uploaded bytes (n of them) are read here
UploadWrite(w, n) ==
    /\ pc[w] = "upload_write"
    /\ files' = files \cup {[path |-> DestPath(loc[w].album_id, loc[w].safe_name), size |-> n]}
    /\ Goto(w, "upload_record", loc[w])
    /\ UNCHANGED <<now, oid, users, issued, albums, photos, dirs, tokenVars>>

\* open raises: no file is created
OpenFails(w) ==
    /\ pc[w] = "upload_write"
    /\ Finish(w, Response(w, "upload_photo", 500))
    /\ UNCHANGED <<now, oid, users, issued, storeVars, tokenVars>>

\* file.read() or f.write raises after open created the file: m of the n bytes
\* are in it
WriteFails(w, n, m) ==
    /\ pc[w] = "upload_write"
    /\ m < n
    /\ files' = files \cup {[path |-> DestPath(loc[w].album_id, loc[w].safe_name), size |-> m]}
    /\ Finish(w, Response(w, "upload_photo", 500))
    /\ UNCHANGED <<now, oid, users, issued, albums, photos, dirs, tokenVars>>

\* lines 218-232; os.path.getsize raises when the file is gone
UploadRecord(w) ==
    /\ pc[w] = "upload_record"
    /\ LET dest_path == DestPath(loc[w].album_id, loc[w].safe_name)
       IN IF Exists(dest_path, files)
          THEN /\ photos' = create_document(photos, oid,
                                PhotoDoc(loc[w].album_id, loc[w].safe_name, loc[w].file_name,
                                         GetSize(dest_path, files)))
               /\ oid' = oid + 1
               /\ Finish(w, Response(w, "upload_photo", 200))
          ELSE /\ UNCHANGED <<photos, oid>>
               /\ Finish(w, Response(w, "upload_photo", 500))
    /\ UNCHANGED <<now, users, issued, albums, dirs, files, tokenVars>>

\* create_document raises: the exception ends the request
RecordFails(w) ==
    /\ pc[w] = "upload_record"
    /\ Finish(w, Response(w, "upload_photo", 500))
    /\ UNCHANGED <<now, oid, users, issued, storeVars, tokenVars>>

----------------------------------------------------------------------------
(* GET /albums/{album_id}/download *)

ReceiveDownload(w) ==
    /\ pc[w] = "idle"
    /\ InFlight(DownloadPcs) < MaxDownloads
    /\ Goto(w, "download_lookup", BlankLoc)
    /\ UNCHANGED <<now, oid, users, issued, storeVars, tokenVars>>

\* lines 249-251
DownloadLookup(w, album_id) ==
    /\ pc[w] = "download_lookup"
    /\ LET found == AlbumLookup(albums, album_id)
       IN IF found # 200
          THEN Finish(w, [Response(w, "download_album_zip", found) EXCEPT !.album_id = album_id])
          ELSE Goto(w, "download_query", [loc[w] EXCEPT !.album_id = album_id])
    /\ UNCHANGED <<now, oid, users, issued, storeVars, tokenVars>>

\* list(db["photo"].find({"album_id": album_id}))
FindPhotos(ps, album_id) == SelectSeq(ps, LAMBDA p : p.album_id = album_id)

\* lines 252-254, 268-269: the StreamingResponse is returned, iterfile has not run
DownloadQuery(w) ==
    /\ pc[w] = "download_query"
    /\ LET found == FindPhotos(photos, loc[w].album_id)
       IN IF found = <<>>
          THEN Finish(w, Response(w, "download_album_zip", 404))
          ELSE Goto(w, "iterfile", [loc[w] EXCEPT !.snapshot = found])
    /\ UNCHANGED <<now, oid, users, issued, storeVars, tokenVars>>

\* p.get("file_name") or os.path.basename(fs_path)
ArcName(p) == IF p.file_name # <<>> THEN p.file_name ELSE FsPath(p.file_url).name

\* A slip: a photo whose file is gone is not skipped
RECURSIVE ZipEntriesNoSkip(_, _)
ZipEntriesNoSkip(ps, fs) ==
    IF ps = <<>> THEN <<>> ELSE <<ArcName(Head(ps))>> \o ZipEntriesNoSkip(Tail(ps), fs)

\* The loop of iterfile: the entries zf.write adds, in order
RECURSIVE ZipEntries(_, _)
ZipEntries(ps, fs) ==
    IF ps = <<>>
    THEN <<>>
    ELSE LET p == Head(ps)
         IN (IF Exists(FsPath(p.file_url), fs) THEN <<ArcName(p)>> ELSE <<>>)
            \o ZipEntries(Tail(ps), fs)

\* lines 256-266: the archive is built in one go and streamed
IterFile(w) ==
    /\ pc[w] = "iterfile"
    /\ Finish(w, [Response(w, "download_album_zip", 200)
                    EXCEPT !.zip = ZipEntries(loc[w].snapshot, files)])
    /\ UNCHANGED <<now, oid, users, issued, storeVars, tokenVars>>

----------------------------------------------------------------------------
(* Token round trip: create_access_token, then get_current_user on the token *)

NoTk == [set |-> FALSE, t0 |-> 0, delta |-> NoDelta, sub |-> "", role |-> "", token |-> NoToken]
NoTkv == [set |-> FALSE, at |-> 0, res |-> NoIdentity]

Subjects == {IdStr(1), IdStr(2)}
Roles == {"admin", "user"}
Deltas == {NoDelta} \cup {Delta(d) : d \in 1..MaxTicks}

IssueToken(sub, role, expires_delta) ==
    /\ ~tk.set
    /\ tk' = [set |-> TRUE, t0 |-> now, delta |-> expires_delta, sub |-> sub, role |-> role,
              token |-> create_access_token([sub |-> sub, role |-> role], expires_delta, now)]
    /\ sent' = NoSent
    /\ UNCHANGED <<now, oid, users, issued, storeVars, pc, loc, tkv>>

ValidateToken ==
    /\ tk.set
    /\ tkv' = [set |-> TRUE, at |-> now,
               res |-> get_current_user(Header(<<Word("Bearer"), Space, Jwt(tk.token)>>), now)]
    /\ sent' = NoSent
    /\ UNCHANGED <<now, oid, users, issued, storeVars, pc, loc, tk>>

----------------------------------------------------------------------------
(* The environment *)

WeekTicks == timedelta_minutes(ACCESS_TOKEN_EXPIRE_MINUTES)

\* The default token lifetime passes
WeekPasses ==
    /\ now <= MaxTicks
    /\ now' = now + WeekTicks
    /\ sent' = NoSent
    /\ UNCHANGED <<oid, users, issued, storeVars, pc, loc, tokenVars>>

\* One tick passes
Tick ==
    /\ now % WeekTicks < 2 * MaxTicks
    /\ now' = now + 1
    /\ sent' = NoSent
    /\ UNCHANGED <<oid, users, issued, storeVars, pc, loc, tokenVars>>

\* A stored file is removed from outside the program
ExternalDelete(f) ==
    /\ f \in files
    /\ files' = files \ {f}
    /\ sent' = NoSent
    /\ UNCHANGED <<now, oid, users, issued, albums, photos, dirs, pc, loc, tokenVars>>

----------------------------------------------------------------------------
(* Specifications *)

\* The state after construction: empty collections, an empty upload directory
Init ==
    /\ now = 0
    /\ oid = 1
    /\ users = <<>>
    /\ albums = <<>>
    /\ photos = <<>>
    /\ dirs = {}
    /\ files = {}
    /\ issued = {}
    /\ pc = [w \in Workers |-> "idle"]
    /\ loc = [w \in Workers |-> BlankLoc]
    /\ sent = NoSent
    /\ tk = NoTk
    /\ tkv = NoTkv

RegisterNext ==
    \E w \in Workers :
        \/ \E email \in Emails : ReceiveRegister(w, email)
        \/ RegisterFind(w)
        \/ RegisterCount(w)
        \/ RegisterInsert(w)

\* The steps of the admin-only handlers once the guard has let them in
AdminBody(w) ==
    \/ CreateAlbumInsert(w)
    \/ \E album_id \in AlbumIdInputs : UploadLookup(w, album_id)
    \/ \E filename \in FileNames : UploadAlloc(w, filename)
    \/ \E n \in UploadSizes : UploadWrite(w, n)
    \/ UploadRecord(w)

\* The repository or the filesystem fails under a handler
AdminFails(w) ==
    \/ CreateAlbumFails(w)
    \/ MakedirsFails(w)
    \/ OpenFails(w)
    \/ \E n \in UploadSizes : \E m \in 0..(n - 1) : WriteFails(w, n, m)
    \/ RecordFails(w)

AdminNext ==
    \E w \in Workers :
        \/ \E op \in AdminOps, authorization \in Credentials : ReceiveAdminOp(w, op, authorization)
        \/ AdminBody(w)
        \/ AdminFails(w)

DownloadNext ==
    \E w \in Workers :
        \/ ReceiveDownload(w)
        \/ \E album_id \in AlbumIdInputs : DownloadLookup(w, album_id)
        \/ DownloadQuery(w)
        \/ IterFile(w)

Next == RegisterNext \/ AdminNext \/ DownloadNext \/ WeekPasses

TokenNext ==
    \/ \E sub \in Subjects, role \in Roles, expires_delta \in Deltas :
           IssueToken(sub, role, expires_delta)
    \/ ValidateToken
    \/ Tick
    \/ WeekPasses

\* The whole program
Spec == Init /\ [][Next]_vars

\* Issuing one token and validating it as time passes
SpecToken == Init /\ [][TokenNext]_vars

\* The state after two registrations at time 0, one after the other: the
\* administrator and one visitor, each holding the token register returned
RegisteredUsers ==
    <<[id |-> 1, email |-> "a@x", role |-> RoleFor(IsFirst(<<>>))],
      [id |-> 2, email |-> "b@x", role |-> RoleFor(FALSE)]>>

InitRegistered ==
    /\ now \in {0, WeekTicks}
    /\ oid = 3
    /\ users = RegisteredUsers
    /\ albums = <<>>
    /\ photos = <<>>
    /\ dirs = {}
    /\ files = {}
    /\ issued = {create_access_token([sub |-> IdStr(RegisteredUsers[i].id),
                                      role |-> RegisteredUsers[i].role], NoDelta, 0) : i \in 1..2}
    /\ pc = [w \in Workers |-> "idle"]
    /\ loc = [w \in Workers |-> BlankLoc]
    /\ sent = NoSent
    /\ tk = NoTk
    /\ tkv = NoTkv

\* Registration, with concurrent handlers
SpecRegister == Init /\ [][RegisterNext \/ WeekPasses]_vars

\* The administrator's requests: the token register returned, as a Bearer value
AdminCredentials == {Header(<<Word("Bearer"), Space, Jwt(t)>>) : t \in {u \in issued : u.role = "admin"}}

\* The admin-only operations under every credential a client can present,
\* with concurrent handlers
GuardNext ==
    \E w \in Workers :
        \/ \E op \in AdminOps, authorization \in Credentials : ReceiveAdminOp(w, op, authorization)
        \/ AdminBody(w)

SpecGuard == InitRegistered /\ [][GuardNext]_vars

\* The administrator's albums and uploads while the repository and the
\* filesystem may fail, with concurrent handlers
UploadNext ==
    \E w \in Workers :
        \/ \E op \in AdminOps, authorization \in AdminCredentials :
               ReceiveAdminOp(w, op, authorization)
        \/ AdminBody(w)
        \/ AdminFails(w)

SpecUpload == InitRegistered /\ [][UploadNext]_vars

\* Uploads by the administrator and bulk downloads while files disappear from
\* the upload directory
ArchiveNext ==
    \/ \E w \in Workers :
           \/ \E op \in AdminOps, authorization \in AdminCredentials :
                  ReceiveAdminOp(w, op, authorization)
           \/ AdminBody(w)
    \/ DownloadNext
    \/ \E f \in files : ExternalDelete(f)

SpecArchive == InitRegistered /\ [][ArchiveNext]_vars

----------------------------------------------------------------------------
(* Properties *)

AdminRoles(us) == {i \in 1..Len(us) : us[i].role = "admin"}

\* C1: In every interleaving of register handlers the first stored user, and
\* only that one, has role admin: every later one has role user, so at most one
\* user record is an admin.
C1_OnlyTheFirstIsAdmin ==
    /\ \A i \in 1..Len(users) : users[i].role = (IF i = 1 THEN "admin" ELSE "user")
    /\ Cardinality(AdminRoles(users)) <= 1

\* C2: No two user records share an email, under concurrent register handlers.
C2_EmailUnique ==
    \A i, j \in 1..Len(users) : users[i].email = users[j].email => i = j

\* The photo records that point at the path
RecordsOf(ps, path) == {i \in 1..Len(ps) : FsPath(ps[i].file_url) = path}

\* C3: Write-before-record. Every photo record's file_url resolves to an
\* existing file; a step that adds a photo record is the record step of an
\* upload whose file was on disk before the step; and an upload that leaves its
\* write step without reaching the record step (the write failed) adds no record.
C3_WriteBeforeRecord ==
    [][/\ \A i \in 1..Len(photos') : Exists(FsPath(photos'[i].file_url), files')
       /\ photos' # photos =>
              \E w \in Workers :
                  /\ pc[w] = "upload_record"
                  /\ Len(photos') = Len(photos) + 1
                  /\ photos'[Len(photos')].file_url = FileUrl(loc[w].album_id, loc[w].safe_name)
                  /\ Exists(FsPath(photos'[Len(photos')].file_url), files)
       /\ \A w \in Workers :
              (pc[w] = "upload_write" /\ pc'[w] = "idle") => photos' = photos
      ]_vars

\* C3 witness: one upload is recorded, and a failed write left a cut-short file
\* that no record points at.
C3_Witness ==
    /\ Len(photos) >= 1
    /\ \E f \in files : f.size = 0 /\ RecordsOf(photos, f.path) = {}
    /\ sent.op = "upload_photo" /\ sent.status = 500

\* How the claims read a credential: the places of its spaces, and the parts
\* before and after its only space
SpacesIn(h) == {i \in 1..Len(h.text) : h.text[i].ch = " "}
OnlySpace(h) == CHOOSE i \in SpacesIn(h) : TRUE
SchemePart(h) == SubSeq(h.text, 1, OnlySpace(h) - 1)
TokenPart(h) == SubSeq(h.text, OnlySpace(h) + 1, Len(h.text))

\* A two-part "Bearer <token>" value with a token in it
WellFormed(h) ==
    /\ h.present
    /\ Cardinality(SpacesIn(h)) = 1
    /\ Len(SchemePart(h)) = 1
    /\ SchemePart(h)[1].ch \in {"bearer", "Bearer", "BEARER"}
    /\ Len(TokenPart(h)) = 1
    /\ TokenPart(h)[1].ch = "jwt"

CredentialToken(h) == TokenPart(h)[1].tok

\* The token was signed by this server over the claims it carries
GenuinelySigned(t) ==
    /\ t.sig.key = JWT_SECRET
    /\ t.sig.sub = t.sub /\ t.sig.role = t.role /\ t.sig.exp = t.exp

\* The token's expiry, a whole second, is still ahead at time at
Unexpired(t, at) == at < t.exp * TicksPerSec

\* Absent, malformed, or carrying a token that fails validation
Unauthenticated(h, at) ==
    \/ ~WellFormed(h)
    \/ ~GenuinelySigned(CredentialToken(h))
    \/ ~Unexpired(CredentialToken(h), at)

AdminBodyPcs == CreatePcs \cup UploadPcs

\* C4: An admin-only request whose credential is absent, is no two-part Bearer
\* value, has an empty token or a token that fails validation is answered 401
\* (never 403), and no such request is inside a handler body.
C4_UnauthenticatedBeforeForbidden ==
    /\ (sent.op \in AdminOps /\ Unauthenticated(sent.authorization, now)) => sent.status = 401
    /\ \A w \in Workers :
           pc[w] \in AdminBodyPcs => ~Unauthenticated(loc[w].authorization, now)

\* C4 witness: an upload whose Bearer token claims admin under a foreign
\* signature was answered 401.
C4_Witness ==
    /\ sent.op = "upload_photo"
    /\ sent.status = 401
    /\ WellFormed(sent.authorization)
    /\ CredentialToken(sent.authorization).role = "admin"
    /\ ~GenuinelySigned(CredentialToken(sent.authorization))

ValidNonAdmin(h, at) == ~Unauthenticated(h, at) /\ CredentialToken(h).role # "admin"

GenuineAdmin(h) ==
    /\ WellFormed(h)
    /\ GenuinelySigned(CredentialToken(h))
    /\ CredentialToken(h).role = "admin"

AdminIds(us) == {IdStr(us[i].id) : i \in AdminRoles(us)}

\* C5: An admin-only request with a valid token whose role is not admin is
\* answered 403 and changes nothing; only requests under a genuine admin token
\* are inside a handler body; every step that changes the albums, the photos,
\* the directories or the files is a step of such a request, and every album
\* is owned by an admin.
C5_ForbiddenNeverEnters ==
    [][/\ (sent'.op \in AdminOps /\ ValidNonAdmin(sent'.authorization, now')) =>
              /\ sent'.status = 403
              /\ pc'[sent'.w] = "idle"
              /\ UNCHANGED storeVars
       /\ \A w \in Workers : pc'[w] \in AdminBodyPcs => GenuineAdmin(loc'[w].authorization)
       /\ storeVars' # storeVars =>
              \E w \in Workers :
                  /\ pc[w] \in AdminBodyPcs
                  /\ pc'[w] # pc[w]
                  /\ GenuineAdmin(loc[w].authorization)
       /\ \A i \in 1..Len(albums') : albums'[i].owner_id \in AdminIds(users')
      ]_vars

\* C5 witness: with an album in place, an upload under the visitor's valid
\* token was answered 403.
C5_Witness ==
    /\ sent.op = "upload_photo"
    /\ sent.status = 403
    /\ ValidNonAdmin(sent.authorization, now)
    /\ Len(albums) >= 1

SevenDays == 7 * 24 * 60 * 60 * TicksPerSec

\* The lifetime the token under test was issued with
Ttl == IF tk.delta.given THEN tk.delta.ticks ELSE SevenDays

\* C6 as stated: a token issued at t0 validates to {subject id, role} at every
\* time before t0 + ttl and is rejected at every time from t0 + ttl on.
C6_ExpiryAtIssuePlusTtl ==
    tkv.set =>
        IF tkv.at < tk.t0 + Ttl
        THEN tkv.res = Identity(tk.sub, tk.role)
        ELSE tkv.res = Rejected(401)

\* t0 + ttl, cut to the whole second
WholeSecondExpiry == ((tk.t0 + Ttl) \div TicksPerSec) * TicksPerSec

\* C6 amended: a token issued at t0 validates to {subject id, role} at every
\* time before t0 + ttl cut to the whole second, and is rejected (401) at every
\* time from then on; without a ttl the lifetime is 7 days.
C6_ExpiryAtWholeSecond ==
    tkv.set =>
        IF tkv.at < WholeSecondExpiry
        THEN tkv.res = Identity(tk.sub, tk.role)
        ELSE tkv.res = Rejected(401)

\* C6 witness: a token issued without a ttl after the clock had moved was
\* validated seven days later, at the second it expires, and rejected.
C6_Witness ==
    /\ tkv.set
    /\ ~tk.delta.given
    /\ tk.t0 > 0
    /\ tkv.at = WholeSecondExpiry
    /\ tkv.res = Rejected(401)

\* No album record has this string as its id
MatchesNoAlbum(as, album_id) == \A i \in 1..Len(as) : IdStr(as[i].id) # album_id

\* C7: An admin upload whose album id matches no album record is answered 404
\* and leaves the albums, the photos, the directories and the files unchanged.
C7_MissingAlbumIsNotFound ==
    [][(sent'.op = "upload_photo" /\ sent'.album_id # ""
            /\ MatchesNoAlbum(albums', sent'.album_id)) =>
           (sent'.status = 404 /\ UNCHANGED storeVars)
      ]_vars

\* C8: A bulk download is never answered with an archive of no entries.
C8_NeverAnEmptyArchive ==
    (sent.op = "download_album_zip" /\ sent.status = 200) => sent.zip # <<>>

\* The places in a snapshot whose backing file is on disk
Present(snapshot, fs) ==
    {i \in 1..Len(snapshot) : \E f \in fs : f.path.dir = snapshot[i].file_url.dir
                                            /\ f.path.name = snapshot[i].file_url.name}

\* The name an archive entry is to have
EntryName(p) == IF p.file_name = <<>> THEN p.file_url.name ELSE p.file_name

\* The places among the photo records that belong to the album
OfAlbum(ps, album_id) == {i \in 1..Len(ps) : ps[i].album_id = album_id}

\* How many members of the set are at most i
Rank(set, i) == Cardinality({j \in set : j <= i})

\* C9: The download takes the album's n photo records, and the archive built
\* from them has n - k entries when k backing files are missing at build time:
\* one per photo whose file exists, in order, named by its file_name or, when
\* that is absent, by the physical file name; none for a missing file.
C9_BestEffortArchive ==
    [][\A w \in Workers :
          /\ (pc[w] = "download_query" /\ pc'[w] = "iterfile") =>
                 LET mine == OfAlbum(photos, loc[w].album_id)
                 IN /\ Len(loc'[w].snapshot) = Cardinality(mine)
                    /\ \A i \in mine : loc'[w].snapshot[Rank(mine, i)] = photos[i]
          /\ (pc[w] = "iterfile" /\ pc'[w] = "idle") =>
                 LET snapshot == loc[w].snapshot
                     there == Present(snapshot, files)
                     missing == (1..Len(snapshot)) \ there
                 IN /\ sent'.status = 200
                    /\ Len(snapshot) >= 1
                    /\ Len(sent'.zip) = Len(snapshot) - Cardinality(missing)
                    /\ \A i \in there : sent'.zip[Rank(there, i)] = EntryName(snapshot[i])
      ]_vars

\* C9 witness: an album with two photo records of different names, one of them
\* without a file_name, and one backing file gone: the archive has one entry.
C9_Witness ==
    /\ sent.op = "download_album_zip"
    /\ sent.status = 200
    /\ Len(sent.zip) = 1
    /\ LET mine == OfAlbum(photos, sent.album_id)
       IN /\ Cardinality(mine) = 2
          /\ Cardinality(Present(FindPhotos(photos, sent.album_id), files)) = 1
          /\ \E i, j \in mine : photos[i].file_name = <<>> /\ photos[j].file_name # <<>>

\* The path an upload in flight has written and not yet recorded
Pending(w) == pc[w] = "upload_record"

\* C10: No partial commit: every file under the upload directory belongs to a
\* photo record or to an upload still on its way to recording it, so a failed
\* upload leaves no file behind.
C10_NoPartialCommit ==
    \A f \in files :
        \/ RecordsOf(photos, f.path) # {}
        \/ \E w \in Workers :
               Pending(w) /\ DestPath(loc[w].album_id, loc[w].safe_name) = f.path

====
